---- MODULE Spec2Model ----
(***************************************************************************)
(* Model of the reverse-polish x86-64 code generator of src/main.rs.       *)
(*                                                                         *)
(* The driver `compile` feeds one character at a time to the semantic      *)
(* actions of CodeGen; every action mutates the evaluation stack and       *)
(* prints assembly lines as it goes.  A panic ends the process.  The       *)
(* emitted lines are kept as structured instructions and are executed by   *)
(* a small machine (eax, ebx, native stack, data cells) so that what the   *)
(* generated code computes can be compared with the postfix value of the   *)
(* input.                                                                  *)
(***************************************************************************)
EXTENDS Integers, Sequences, FiniteSets

VARIABLES
    stack,      \* CodeGen.stack : Vec<Location>
    symbols,    \* CodeGen.symbols : HashSet<char>
    out,        \* lines printed on stdout so far (text section)
    data,       \* lines of the data section printed by epilogue, in print order
    status,     \* "new" | "running" | "done" | "panic"
    fatal,      \* which panic ended the process ("" while alive)
    input       \* characters consumed so far by the loop of compile

vars == <<stack, symbols, out, data, status, fatal, input>>

---------------------------------------------------------------------------
(* Bounds of the model. *)

\* longest input fed by the general specification
MaxLen == 7
\* longest input fed by the arithmetic specification
MaxArith == 7
\* longest input fed by the add/multiply specification
MaxAddMul == 7
\* longest input fed by the assignment specification
MaxAssign == 8
\* longest input fed by the specification of the combine steps
MaxCombine == 7
\* longest input fed by the two-variable specification
MaxVars == 6

\* digits and letters the specifications draw from ('0'..'9', 'a'..'z')
Digits == {5}
Vars == {"x"}
ArithDigits == {1, 2}
AddMulDigits == {1, 2, 3, 4}
AssignDigits == {3, 5}
\* every letter a specification may feed: the data cells of the machine
AllVars == {"x", "y"}

---------------------------------------------------------------------------
(* 32-bit machine words, kept as two 16-bit halves. *)

Half == 65536

W(n) == [hi |-> (n \div Half) % Half, lo |-> n % Half]

WAdd(a, b) ==
    LET lo == a.lo + b.lo
    IN  [hi |-> (a.hi + b.hi + (lo \div Half)) % Half, lo |-> lo % Half]

WSub(a, b) ==
    LET lo == a.lo - b.lo
        borrow == IF lo < 0 THEN 1 ELSE 0
    IN  [hi |-> (a.hi - b.hi - borrow) % Half, lo |-> lo % Half]

\* x * y mod 2^16 for halves x, y, without leaving 31 bits
MulHalf(x, y) == ((((x \div 256) * y) % 256) * 256 + (x % 256) * y) % Half

\* the full 32-bit product of two halves
MulWide(x, y) ==
    LET p == (x \div 256) * y
        q == (x % 256) * y
    IN  WAdd([hi |-> (p \div 256) % Half, lo |-> (p % 256) * 256],
             [hi |-> q \div Half, lo |-> q % Half])

\* low 32 bits of the product, what `mul ebx` leaves in eax
WMul(a, b) ==
    LET ll == MulWide(a.lo, b.lo)
        cross == (MulHalf(a.hi, b.lo) + MulHalf(a.lo, b.hi)) % Half
    IN  [hi |-> (ll.hi + cross) % Half, lo |-> ll.lo]

---------------------------------------------------------------------------
(* Operand and Location. *)

NoOperand == [kind |-> "None", n |-> 0, v |-> "-"]
Integer(n) == [kind |-> "Integer", n |-> n, v |-> "-"]
Variable(v) == [kind |-> "Variable", n |-> 0, v |-> v]

OnOperandStack(o) == [loc |-> "OnOperandStack", operand |-> o]
InAccumulator == [loc |-> "InAccumulator", operand |-> NoOperand]
OnCpuStack == [loc |-> "OnCpuStack", operand |-> NoOperand]

(* Operand text of an instruction: an immediate, a memory reference or a   *)
(* register.  fmt renders an Operand as the first two.                     *)
Imm(n) == [mode |-> "imm", n |-> n, name |-> "-"]
Mem(v) == [mode |-> "mem", n |-> 0, name |-> v]
Reg(r) == [mode |-> "reg", n |-> 0, name |-> r]
NoArg == [mode |-> "none", n |-> 0, name |-> "-"]

fmt(o) == IF o.kind = "Integer" THEN Imm(o.n) ELSE Mem(o.v)

Ins(op, dst, src) == [op |-> op, dst |-> dst, src |-> src]

PushRax == Ins("push", NoArg, Reg("rax"))
PopRbx == Ins("pop", Reg("rbx"), NoArg)
Ret == Ins("ret", NoArg, NoArg)
MovEax(src) == Ins("mov", Reg("eax"), src)
MovEbx(src) == Ins("mov", Reg("ebx"), src)
\* mutant: the store's operands are swapped, a load of the cell
Store_reversed(v) == Ins("mov", Reg("eax"), Mem(v))
Store(v) == Ins("mov", Mem(v), Reg("eax"))

---------------------------------------------------------------------------
(* The code generator: each method is an operator from the generator's     *)
(* state cg = [stack, symbols, out, fatal] to its state when the method    *)
(* returns or panics (fatal # "").                                         *)

Panic(cg, why) == [cg EXCEPT !.fatal = why]
Emit(cg, lines) == [cg EXCEPT !.out = cg.out \o lines]
Push(cg, l) == [cg EXCEPT !.stack = Append(cg.stack, l)]

new == [stack |-> <<>>, symbols |-> {}, out |-> <<>>, fatal |-> ""]

prologue(cg) ==
    Emit(cg, << Ins("global", NoArg, NoArg),
                Ins("section", NoArg, NoArg),
                Ins("label", NoArg, NoArg) >>)

number(cg, n) == Push(cg, OnOperandStack(Integer(n)))

\* mutant: the variable is pushed and never recorded as a symbol
variable_unrecorded(cg, v) == Push(cg, OnOperandStack(Variable(v)))

variable(cg, v) ==
    Push([cg EXCEPT !.symbols = cg.symbols \cup {v}], OnOperandStack(Variable(v)))

\* mutant: the statement's value is finalized and the residue is not checked
end_of_expr_noassert(cg) ==
    LET n == Len(cg.stack)
        popped == IF n = 0 THEN cg
                  ELSE [cg EXCEPT !.stack = SubSeq(cg.stack, 1, n - 1)]
        top == cg.stack[n]
    IN  IF n = 0 THEN cg
        ELSE IF top.loc = "OnCpuStack" THEN Panic(popped, "unbalanced stack")
        ELSE IF top.loc = "OnOperandStack"
        THEN Emit(popped, <<MovEax(fmt(top.operand))>>)
        ELSE popped

\* mutant: an empty stack at end of statement is taken for an error
end_of_expr_strict(cg) ==
    LET n == Len(cg.stack)
        popped == IF n = 0 THEN cg
                  ELSE [cg EXCEPT !.stack = SubSeq(cg.stack, 1, n - 1)]
        top == cg.stack[n]
    IN  IF n = 0 THEN Panic(cg, "assertion failed")
        ELSE IF top.loc = "OnCpuStack" THEN Panic(popped, "unbalanced stack")
        ELSE LET done == IF top.loc = "OnOperandStack"
                         THEN Emit(popped, <<MovEax(fmt(top.operand))>>)
                         ELSE popped
             IN  IF Len(done.stack) # 0 THEN Panic(done, "assertion failed")
                 ELSE done

end_of_expr(cg) ==
    LET n == Len(cg.stack)
        popped == IF n = 0 THEN cg
                  ELSE [cg EXCEPT !.stack = SubSeq(cg.stack, 1, n - 1)]
        top == cg.stack[n]
    IN  IF n = 0 THEN cg
        ELSE IF top.loc = "OnCpuStack" THEN Panic(popped, "unbalanced stack")
        ELSE LET done == IF top.loc = "OnOperandStack"
                         THEN Emit(popped, <<MovEax(fmt(top.operand))>>)
                         ELSE popped
             IN  IF Len(done.stack) # 0 THEN Panic(done, "assertion failed")
                 ELSE done

\* mutant: the spill pushes rax and forgets to rewrite the entry
spilled_kept(ol) == ol

\* what the spill loop writes over an InAccumulator entry
spilled(ol) == OnCpuStack

(* The spill loop of prepare_binop, from index i (1-based) on. *)
RECURSIVE spill(_, _)
spill(cg, i) ==
    LET len == Len(cg.stack)
    IN  IF i > len THEN cg
        ELSE IF cg.stack[i].loc = "InAccumulator"
        THEN IF i # len THEN Panic(cg, "unexpected stack")
             ELSE spill([Emit(cg, <<PushRax>>) EXCEPT !.stack[i] = spilled(@)],
                        i + 1)
        ELSE spill(cg, i + 1)

\* mutant: the operands are popped and the spill pass is skipped
prepare_binop_nospill(cg, debug) ==
    LET n == Len(cg.stack)
    IN  IF n < 2
        THEN [cg |-> Panic(IF debug THEN cg ELSE [cg EXCEPT !.stack = <<>>],
                           "stack underflow"),
              lhs |-> InAccumulator, rhs |-> InAccumulator]
        ELSE [cg |-> [cg EXCEPT !.stack = SubSeq(cg.stack, 1, n - 2)],
              lhs |-> cg.stack[n - 1], rhs |-> cg.stack[n]]

\* mutant: a missing operand is taken to be the literal 0 (unwrap_or)
prepare_binop_unchecked(cg, debug) ==
    LET n == Len(cg.stack)
        zero == OnOperandStack(Integer(0))
    IN  IF n < 2
        THEN [cg |-> [cg EXCEPT !.stack = <<>>],
              lhs |-> zero, rhs |-> IF n = 1 THEN cg.stack[1] ELSE zero]
        ELSE [cg |-> spill([cg EXCEPT !.stack = SubSeq(cg.stack, 1, n - 2)], 1),
              lhs |-> cg.stack[n - 1], rhs |-> cg.stack[n]]

(* prepare_binop returns the generator and the pair (lhs, rhs).  With      *)
(* fewer than two entries a debug build stops at debug_assert!, a release  *)
(* build at the unwrap of the failed pop, after the pops that succeeded.   *)
prepare_binop(cg, debug) ==
    LET n == Len(cg.stack)
    IN  IF n < 2
        THEN [cg |-> Panic(IF debug THEN cg ELSE [cg EXCEPT !.stack = <<>>],
                           "stack underflow"),
              lhs |-> InAccumulator, rhs |-> InAccumulator]
        ELSE [cg |-> spill([cg EXCEPT !.stack = SubSeq(cg.stack, 1, n - 2)], 1),
              lhs |-> cg.stack[n - 1], rhs |-> cg.stack[n]]

(* The closures add, sub and mul hand to rvalue_binop. *)
emit_add(n) == << Ins("add", Reg("eax"), n) >>
emit_sub(n) == << Ins("sub", Reg("eax"), n) >>
\* mutant: mul multiplies by whatever ebx holds
emit_mul_stale(n) == << Ins("mul", NoArg, Reg("ebx")) >>
emit_mul(n) == << MovEbx(n), Ins("mul", NoArg, Reg("ebx")) >>

emit_binop(op, n) ==
    CASE op = "add" -> emit_add(n)
      [] op = "sub" -> emit_sub(n)
      [] op = "mul" -> emit_mul(n)

\* mutant: the spilled lhs is never popped back
combine_nopop(lhs, rhs, op) ==
    IF lhs.loc = "OnOperandStack" /\ rhs.loc = "OnOperandStack"
    THEN [ok |-> TRUE,
          lines |-> <<MovEax(fmt(lhs.operand))>> \o emit_binop(op, fmt(rhs.operand))]
    ELSE IF lhs.loc = "OnOperandStack" /\ rhs.loc = "InAccumulator"
    THEN [ok |-> TRUE,
          lines |-> <<MovEbx(Reg("eax")), MovEax(fmt(lhs.operand))>>
                    \o emit_binop(op, Reg("ebx"))]
    ELSE IF lhs.loc = "InAccumulator" /\ rhs.loc = "OnOperandStack"
    THEN [ok |-> TRUE, lines |-> emit_binop(op, fmt(rhs.operand))]
    ELSE IF lhs.loc = "OnCpuStack" /\ rhs.loc = "InAccumulator"
    THEN [ok |-> TRUE, lines |-> emit_binop(op, Reg("ebx"))]
    ELSE [ok |-> FALSE, lines |-> <<>>]

\* mutant: (OnOperandStack, InAccumulator) applies the operator to the
\* accumulator with lhs's text, as if the accumulator held lhs
combine_noswap(lhs, rhs, op) ==
    IF lhs.loc = "OnOperandStack" /\ rhs.loc = "OnOperandStack"
    THEN [ok |-> TRUE,
          lines |-> <<MovEax(fmt(lhs.operand))>> \o emit_binop(op, fmt(rhs.operand))]
    ELSE IF lhs.loc = "OnOperandStack" /\ rhs.loc = "InAccumulator"
    THEN [ok |-> TRUE, lines |-> emit_binop(op, fmt(lhs.operand))]
    ELSE IF lhs.loc = "InAccumulator" /\ rhs.loc = "OnOperandStack"
    THEN [ok |-> TRUE, lines |-> emit_binop(op, fmt(rhs.operand))]
    ELSE IF lhs.loc = "OnCpuStack" /\ rhs.loc = "InAccumulator"
    THEN [ok |-> TRUE, lines |-> <<PopRbx>> \o emit_binop(op, Reg("ebx"))]
    ELSE [ok |-> FALSE, lines |-> <<>>]

(* The match of rvalue_binop on (lhs, rhs): the lines of the shape, or no   *)
(* supported shape.                                                        *)
combine(lhs, rhs, op) ==
    IF lhs.loc = "OnOperandStack" /\ rhs.loc = "OnOperandStack"
    THEN [ok |-> TRUE,
          lines |-> <<MovEax(fmt(lhs.operand))>> \o emit_binop(op, fmt(rhs.operand))]
    ELSE IF lhs.loc = "OnOperandStack" /\ rhs.loc = "InAccumulator"
    THEN [ok |-> TRUE,
          lines |-> <<MovEbx(Reg("eax")), MovEax(fmt(lhs.operand))>>
                    \o emit_binop(op, Reg("ebx"))]
    ELSE IF lhs.loc = "InAccumulator" /\ rhs.loc = "OnOperandStack"
    THEN [ok |-> TRUE, lines |-> emit_binop(op, fmt(rhs.operand))]
    ELSE IF lhs.loc = "OnCpuStack" /\ rhs.loc = "InAccumulator"
    THEN [ok |-> TRUE, lines |-> <<PopRbx>> \o emit_binop(op, Reg("ebx"))]
    ELSE [ok |-> FALSE, lines |-> <<>>]

\* mutant: the result is computed and its InAccumulator entry never pushed
rvalue_binop_nopush(cg, op, debug) ==
    LET p == prepare_binop(cg, debug)
        c == combine(p.lhs, p.rhs, op)
    IN  IF p.cg.fatal # "" THEN p.cg
        ELSE IF c.ok THEN Emit(p.cg, c.lines)
        ELSE Panic(p.cg, "unexpected operand shape")

rvalue_binop(cg, op, debug) ==
    LET p == prepare_binop(cg, debug)
        c == combine(p.lhs, p.rhs, op)
    IN  IF p.cg.fatal # "" THEN p.cg
        ELSE IF c.ok THEN Push(Emit(p.cg, c.lines), InAccumulator)
        ELSE Panic(p.cg, "unexpected operand shape")

add(cg, debug) == rvalue_binop(cg, "add", debug)
sub(cg, debug) == rvalue_binop(cg, "sub", debug)
mul(cg, debug) == rvalue_binop(cg, "mul", debug)

\* mutant: the target's kind is not checked
assign_any_target(cg, debug) ==
    LET p == prepare_binop(cg, debug)
        lhs == p.lhs
        rhs == p.rhs
    IN  IF p.cg.fatal # "" THEN p.cg
        ELSE IF lhs.loc = "OnOperandStack" /\ rhs.loc = "OnOperandStack"
        THEN Push(Emit(p.cg, <<MovEax(fmt(rhs.operand)), Store(lhs.operand.v)>>),
                  InAccumulator)
        ELSE IF lhs.loc = "OnOperandStack" /\ rhs.loc = "InAccumulator"
        THEN Push(Emit(p.cg, <<Store(lhs.operand.v)>>), InAccumulator)
        ELSE Panic(p.cg, "invalid assignment")

\* mutant: an rhs still on the operand stack is stored without being loaded
assign_noload(cg, debug) ==
    LET p == prepare_binop(cg, debug)
        lhs == p.lhs
        rhs == p.rhs
    IN  IF p.cg.fatal # "" THEN p.cg
        ELSE IF lhs.loc = "OnOperandStack" /\ lhs.operand.kind = "Variable"
                /\ rhs.loc \in {"OnOperandStack", "InAccumulator"}
        THEN Push(Emit(p.cg, <<Store(lhs.operand.v)>>), InAccumulator)
        ELSE Panic(p.cg, "invalid assignment")

assign(cg, debug) ==
    LET p == prepare_binop(cg, debug)
        lhs == p.lhs
        rhs == p.rhs
    IN  IF p.cg.fatal # "" THEN p.cg
        ELSE IF lhs.loc = "OnOperandStack" /\ lhs.operand.kind = "Variable"
                /\ rhs.loc = "OnOperandStack"
        THEN Push(Emit(p.cg, <<MovEax(fmt(rhs.operand)), Store(lhs.operand.v)>>),
                  InAccumulator)
        ELSE IF lhs.loc = "OnOperandStack" /\ lhs.operand.kind = "Variable"
                /\ rhs.loc = "InAccumulator"
        THEN Push(Emit(p.cg, <<Store(lhs.operand.v)>>), InAccumulator)
        ELSE Panic(p.cg, "invalid assignment")

\* mutant: `ret` is printed before the trailing statement is closed
epilogue_ret_first(cg) == end_of_expr(Emit(cg, <<Ret>>))

(* epilogue up to `ret`; the data section is printed by the action.        *)
epilogue(cg) ==
    LET e == end_of_expr(cg)
    IN  IF e.fatal # "" THEN e ELSE Emit(e, <<Ret>>)

---------------------------------------------------------------------------
(* State machine: compile. *)

CG == [stack |-> stack, symbols |-> symbols, out |-> out, fatal |-> fatal]

\* the generator's state after a method, and the character it consumed
Becomes(cg, ch) ==
    /\ stack' = cg.stack
    /\ symbols' = cg.symbols
    /\ out' = cg.out
    /\ fatal' = cg.fatal
    /\ status' = IF cg.fatal # "" THEN "panic" ELSE "running"
    /\ input' = Append(input, ch)
    /\ data' = data

Reading(max) == status = "running" /\ Len(input) < max

DigitChar(n) == <<"0", "1", "2", "3", "4", "5", "6", "7", "8", "9">>[n + 1]

Init ==
    /\ stack = new.stack
    /\ symbols = new.symbols
    /\ out = new.out
    /\ fatal = new.fatal
    /\ data = <<>>
    /\ status = "new"
    /\ input = <<>>

Prologue ==
    /\ status = "new"
    /\ out' = prologue(CG).out
    /\ status' = "running"
    /\ UNCHANGED <<stack, symbols, data, fatal, input>>

NumberEv(digits, max) ==
    /\ Reading(max)
    /\ \E n \in digits : Becomes(number(CG, n), DigitChar(n))

VariableEv(letters, max) ==
    /\ Reading(max)
    /\ \E v \in letters : Becomes(variable(CG, v), v)

AddEv(max) ==
    /\ Reading(max)
    /\ \E debug \in BOOLEAN : Becomes(add(CG, debug), "+")

SubEv(max) ==
    /\ Reading(max)
    /\ \E debug \in BOOLEAN : Becomes(sub(CG, debug), "-")

MulEv(max) ==
    /\ Reading(max)
    /\ \E debug \in BOOLEAN : Becomes(mul(CG, debug), "*")

AssignEv(max) ==
    /\ Reading(max)
    /\ \E debug \in BOOLEAN : Becomes(assign(CG, debug), "=")

EndOfExprEv(max) ==
    /\ Reading(max)
    /\ Becomes(end_of_expr(CG), ";")

(* All permutations of a set, as sequences: the orders in which a HashSet  *)
(* may be iterated.                                                        *)
Orders(S) ==
    { s \in [1..Cardinality(S) -> S] : \A i, j \in 1..Cardinality(S) :
                                          i # j => s[i] # s[j] }

(* The lines of the data section. *)
SectionData == [line |-> "section", label |-> ".data", value |-> 0]
Dd(v) == [line |-> "dd", label |-> v, value |-> 0]

\* what epilogue prints after `ret`, the set being iterated in `order`
data_section(syms, order) ==
    IF Cardinality(syms) > 0
    THEN <<SectionData>> \o [i \in 1..Len(order) |-> Dd(order[i])]
    ELSE <<>>

(* End of input: epilogue. *)
Epilogue ==
    /\ status = "running"
    /\ LET cg == epilogue(CG)
       IN  /\ stack' = cg.stack
           /\ symbols' = cg.symbols
           /\ out' = cg.out
           /\ fatal' = cg.fatal
           /\ status' = IF cg.fatal # "" THEN "panic" ELSE "done"
           /\ IF cg.fatal # "" THEN data' = data
              ELSE \E order \in Orders(cg.symbols) :
                       data' = data_section(cg.symbols, order)
    /\ input' = input

Next ==
    \/ Prologue
    \/ NumberEv(Digits, MaxLen)
    \/ VariableEv(Vars, MaxLen)
    \/ AddEv(MaxLen)
    \/ SubEv(MaxLen)
    \/ MulEv(MaxLen)
    \/ AssignEv(MaxLen)
    \/ EndOfExprEv(MaxLen)
    \/ Epilogue

Spec == Init /\ [][Next]_vars

(* Arithmetic statements only: literals, add, subtract, multiply. *)
NextArith ==
    \/ Prologue
    \/ NumberEv(ArithDigits, MaxArith)
    \/ AddEv(MaxArith)
    \/ SubEv(MaxArith)
    \/ MulEv(MaxArith)
    \/ Epilogue

SpecArith == Init /\ [][NextArith]_vars

(* Statements of literals, add and multiply. *)
NextAddMul ==
    \/ Prologue
    \/ NumberEv(AddMulDigits, MaxAddMul)
    \/ AddEv(MaxAddMul)
    \/ MulEv(MaxAddMul)
    \/ Epilogue

SpecAddMul == Init /\ [][NextAddMul]_vars

(* Programs of assignments and sums. *)
NextAssign ==
    \/ Prologue
    \/ NumberEv(AssignDigits, MaxAssign)
    \/ VariableEv(Vars, MaxAssign)
    \/ AddEv(MaxAssign)
    \/ AssignEv(MaxAssign)
    \/ EndOfExprEv(MaxAssign)
    \/ Epilogue

SpecAssign == Init /\ [][NextAssign]_vars

(* The combine steps of arithmetic statements over four digits; the        *)
(* epilogue is left out.                                                   *)
NextCombine ==
    \/ Prologue
    \/ NumberEv(AddMulDigits, MaxCombine)
    \/ AddEv(MaxCombine)
    \/ SubEv(MaxCombine)
    \/ MulEv(MaxCombine)

SpecCombine == Init /\ [][NextCombine]_vars

(* Programs over two variables. *)
NextVars ==
    \/ Prologue
    \/ NumberEv(Digits, MaxVars)
    \/ VariableEv(AllVars, MaxVars)
    \/ AddEv(MaxVars)
    \/ AssignEv(MaxVars)
    \/ EndOfExprEv(MaxVars)
    \/ Epilogue

SpecVars == Init /\ [][NextVars]_vars

---------------------------------------------------------------------------
(* The target machine: what the emitted lines do when assembled and run.   *)
(* eax and ebx are the low halves of rax and rbx; every write of a 32-bit  *)
(* register clears the upper half, so the native stack holds 32-bit values *)
(* once eax has been written.  The data cells start at 0 (`dd 0`).         *)

Machine(r0) ==
    [eax |-> r0, ebx |-> r0, stk |-> <<>>, mem |-> [v \in AllVars |-> W(0)],
     fault |-> FALSE]

Val(m, src) ==
    CASE src.mode = "imm" -> W(src.n)
      [] src.mode = "mem" -> m.mem[src.name]
      [] src.mode = "reg" -> IF src.name = "eax" THEN m.eax ELSE m.ebx

Exec1(m, ins) ==
    CASE ins.op = "mov" /\ ins.dst.mode = "mem" ->
             [m EXCEPT !.mem[ins.dst.name] = m.eax]
      [] ins.op = "mov" /\ ins.dst.mode = "reg" /\ ins.dst.name = "eax" ->
             [m EXCEPT !.eax = Val(m, ins.src)]
      [] ins.op = "mov" /\ ins.dst.mode = "reg" /\ ins.dst.name = "ebx" ->
             [m EXCEPT !.ebx = Val(m, ins.src)]
      [] ins.op = "add" -> [m EXCEPT !.eax = WAdd(m.eax, Val(m, ins.src))]
      [] ins.op = "sub" -> [m EXCEPT !.eax = WSub(m.eax, Val(m, ins.src))]
      [] ins.op = "mul" -> [m EXCEPT !.eax = WMul(m.eax, Val(m, ins.src))]
      [] ins.op = "push" -> [m EXCEPT !.stk = Append(m.stk, m.eax)]
      [] ins.op = "pop" ->
             IF m.stk = <<>> THEN [m EXCEPT !.fault = TRUE]
             ELSE [m EXCEPT !.ebx = m.stk[Len(m.stk)],
                            !.stk = SubSeq(m.stk, 1, Len(m.stk) - 1)]
      [] ins.op = "ret" ->
             IF m.stk # <<>> THEN [m EXCEPT !.fault = TRUE] ELSE m
      [] OTHER -> m

RECURSIVE ExecFrom(_, _, _)
ExecFrom(lines, i, m) ==
    IF i > Len(lines) THEN m ELSE ExecFrom(lines, i + 1, Exec1(m, lines[i]))

\* the machine after the lines, entered with r0 in the registers
Exec(lines, r0) == ExecFrom(lines, 1, Machine(r0))

\* register contents at entry that the claims quantify over
EntryWords == {W(0), W(77)}

---------------------------------------------------------------------------
(* Reference semantics: the value of a postfix statement. *)

IsDigit(ch) == ch \in {"0", "1", "2", "3", "4", "5", "6", "7", "8", "9"}
IsLetter(ch) == ch \in AllVars
IsArith(ch) == ch \in {"+", "-", "*"}
DigitOf(ch) == CHOOSE n \in 0..9 : DigitChar(n) = ch

Count(s, P(_)) == Cardinality({i \in 1..Len(s) : P(s[i])})

\* entries a postfix evaluator holds after the first k characters
DepthAt(in, k) ==
    Cardinality({i \in 1..k : IsDigit(in[i]) \/ IsLetter(in[i])})
    - Cardinality({i \in 1..k : IsArith(in[i]) \/ in[i] = "="})

\* no operator of `in` finds fewer than two operands
Viable(in) ==
    \A i \in 1..Len(in) :
        (IsArith(in[i]) \/ in[i] = "=") => DepthAt(in, i - 1) >= 2

\* `in` is one well-formed postfix expression
WellFormed(in) == Viable(in) /\ DepthAt(in, Len(in)) = 1

Apply(op, a, b) ==
    CASE op = "+" -> WAdd(a, b)
      [] op = "-" -> WSub(a, b)
      [] op = "*" -> WMul(a, b)

RECURSIVE PostfixFrom(_, _, _)
PostfixFrom(in, i, vs) ==
    IF i > Len(in) THEN vs
    ELSE IF IsDigit(in[i])
    THEN PostfixFrom(in, i + 1, Append(vs, W(DigitOf(in[i]))))
    ELSE LET n == Len(vs)
         IN  PostfixFrom(in, i + 1,
                 Append(SubSeq(vs, 1, n - 2), Apply(in[i], vs[n - 1], vs[n])))

\* value of a well-formed arithmetic statement
PostfixValue(in) == PostfixFrom(in, 1, <<>>)[1]

---------------------------------------------------------------------------
(* Properties. *)

Last(s) == s[Len(s)]
Accs == {i \in DOMAIN stack : stack[i].loc = "InAccumulator"}
Cpus == {i \in DOMAIN stack : stack[i].loc = "OnCpuStack"}
IsPush(l) == l.op = "push"
IsPop(l) == l.op = "pop"
IsInstruction(l) == l.op \notin {"global", "section", "label"}

(* C1: every well-formed postfix statement of single-digit literals, add,  *)
(* subtract and multiply is compiled without a fatal condition.  A panic   *)
(* of an operator on a viable prefix is a panic of every well-formed       *)
(* statement that begins with it; a panic at the end of the statement      *)
(* counts when the whole input is well-formed.                             *)
C1_WellFormedNeverFatal ==
    status = "panic" =>
        IF fatal \in {"assertion failed", "unbalanced stack"}
        THEN ~WellFormed(input)
        ELSE ~Viable(input)

(* C2: in every reachable state at most one entry of the evaluation stack  *)
(* is InAccumulator.                                                       *)
C2_AtMostOneInAccumulator == Cardinality(Accs) <= 1

\* a spill happened and a new accumulator value sits above the spilled one
C2_Witness ==
    /\ status = "running"
    /\ Len(stack) = 3
    /\ stack[1] = OnCpuStack
    /\ stack[2] = InAccumulator
    /\ stack[3].loc = "OnOperandStack"

(* C3, as claimed: an InAccumulator entry is always the top entry of the   *)
(* evaluation stack.                                                       *)
C3_InAccumulatorIsTop == \A i \in Accs : i = Len(stack)

(* C3, amended: every entry above an InAccumulator entry is                *)
(* OnOperandStack: an operand pushed after it whose load is deferred.      *)
C3_OnlyOperandsAboveAccumulator ==
    \A i \in Accs : \A j \in DOMAIN stack :
        j > i => stack[j].loc = "OnOperandStack"

\* the accumulator entry lies under two pending operands
C3_Witness ==
    /\ status = "running"
    /\ Len(stack) = 3
    /\ stack[1] = InAccumulator
    /\ stack[2].loc = "OnOperandStack"
    /\ stack[3].loc = "OnOperandStack"

(* C4: for every statement of single-digit literals, add and multiply that *)
(* the generator accepts, running the emitted lines leaves the value of    *)
(* the postfix expression (mod 2^32) in the accumulator at `ret`, whatever *)
(* the registers held at entry; 1 2 + 3 4 + + gives 10 and 12+34+* gives   *)
(* 21.                                                                     *)
C4_AccumulatorHoldsPostfixValue ==
    (status = "done" /\ input # <<>>) =>
        \A r0 \in EntryWords :
            LET m == Exec(out, r0)
            IN  /\ ~m.fault
                /\ m.eax = PostfixValue(input)
                /\ input = <<"1", "2", "+", "3", "4", "+", "+">> => m.eax = W(10)
                /\ input = <<"1", "2", "+", "3", "4", "+", "*">> => m.eax = W(21)

\* 12+34+* has been compiled and its code leaves 21 in eax
C4_Witness ==
    /\ status = "done"
    /\ input = <<"1", "2", "+", "3", "4", "+", "*">>
    /\ Exec(out, W(77)).eax = W(21)

(* C5, as claimed: after any sequence of events the emitted `push rax`     *)
(* lines minus the emitted `pop rbx` lines are as many as the OnCpuStack   *)
(* entries of the evaluation stack.                                        *)
C5_BalancedAfterAnyEvents ==
    Count(out, IsPush) - Count(out, IsPop) = Cardinality(Cpus)

(* C5, amended: after any sequence of events none of which was fatal, the  *)
(* emitted `push rax` lines minus the emitted `pop rbx` lines are as many  *)
(* as the OnCpuStack entries of the evaluation stack, so after every       *)
(* endOfStatement that returns normally, and at `ret`, pushes equal pops.  *)
C5_NativeStackBalanced ==
    status # "panic" =>
        /\ Count(out, IsPush) - Count(out, IsPop) = Cardinality(Cpus)
        /\ (status = "done" \/ (input # <<>> /\ Last(input) = ";")) =>
              Count(out, IsPush) = Count(out, IsPop)

\* a program with a spill and its reload has reached `ret`
C5_Witness ==
    /\ status = "done"
    /\ Count(out, IsPush) >= 1
    /\ Count(out, IsPop) >= 1

\* value of a location for the machine m
LocValue(l, m) ==
    IF l.loc = "OnOperandStack"
    THEN IF l.operand.kind = "Integer" THEN W(l.operand.n) ELSE m.mem[l.operand.v]
    ELSE m.eax

\* the three combine shapes in which subtraction keeps the operand order
OrderedShape(lhs, rhs) ==
    \/ lhs.loc = "OnOperandStack" /\ rhs.loc = "OnOperandStack"
    \/ lhs.loc = "OnOperandStack" /\ rhs.loc = "InAccumulator"
    \/ lhs.loc = "InAccumulator" /\ rhs.loc = "OnOperandStack"

(* C6: a subtract that combines (OnOperandStack, OnOperandStack),          *)
(* (OnOperandStack, InAccumulator) or (InAccumulator, OnOperandStack)      *)
(* emits lines that leave lhs - rhs (mod 2^32) in the accumulator, lhs and *)
(* rhs being the values of the two entries when the subtract arrives.      *)
C6_SubtractKeepsOrder ==
    [][ ( /\ status = "running"
          /\ input' = Append(input, "-")
          /\ status' = "running"
          /\ Len(stack) >= 2
          /\ OrderedShape(stack[Len(stack) - 1], stack[Len(stack)]) )
        => \A r0 \in EntryWords :
              LET m == Exec(out, r0)
              IN  Exec(out', r0).eax =
                      WSub(LocValue(stack[Len(stack) - 1], m),
                           LocValue(stack[Len(stack)], m)) ]_vars

\* 1 2 1 + - went through (OnOperandStack, InAccumulator): 1 - 3 wraps
C6_Witness ==
    /\ status = "running"
    /\ input = <<"1", "2", "1", "+", "-">>
    /\ Exec(out, W(0)).eax = [hi |-> 65535, lo |-> 65534]

XProgram == <<"x", "5", "=", "x", "3", "+", ";">>
XProgramSeparated == <<"x", "5", "=", ";", "x", "3", "+", ";">>

\* the lines store into x's cell and later load eax from it
ReadsBack(lines, v) ==
    \E i, j \in DOMAIN lines :
        i < j /\ lines[i] = Ins("mov", Mem(v), Reg("eax"))
              /\ lines[j] = Ins("mov", Reg("eax"), Mem(v))

(* C7, as claimed: x 5 = x 3 + ; compiles without a fatal condition and    *)
(* its code stores 5 into x and leaves 8 in the accumulator.               *)
C7_RoundTripCompiles ==
    input = XProgram =>
        /\ status # "panic"
        /\ \A r0 \in EntryWords :
              /\ Exec(out, r0).mem["x"] = W(5)
              /\ Exec(out, r0).eax = W(8)

(* C7, amended: with the two statements separated, x 5 = ; x 3 + ;         *)
(* compiles without a fatal condition, and its code stores 5 into x's cell *)
(* and then leaves 8 in the accumulator, x being loaded from its cell;     *)
(* without the separator the final endOfStatement is fatal.                *)
C7_RoundTripSeparated ==
    /\ input = XProgramSeparated =>
          /\ status # "panic"
          /\ ReadsBack(out, "x")
          /\ \A r0 \in EntryWords :
                /\ ~Exec(out, r0).fault
                /\ Exec(out, r0).mem["x"] = W(5)
                /\ Exec(out, r0).eax = W(8)
    /\ input = XProgram => (status = "panic" /\ fatal = "assertion failed")

\* the separated program has been compiled to its `ret`
C7_Witness == input = XProgramSeparated /\ status = "done"

(* C8, as claimed: a compilation that ends in a fatal condition has        *)
(* emitted no instruction.                                                 *)
C8_FatalEmitsNothing == status = "panic" => Count(out, IsInstruction) = 0

(* C8, amended: a compilation that ends in a fatal condition has emitted   *)
(* the prologue and whatever was printed before the abort, but never `ret` *)
(* nor a storage declaration: its output is never a finished program.      *)
C8_FatalNeverFinishes ==
    status = "panic" =>
        /\ Len(out) >= 3
        /\ \A i \in DOMAIN out : out[i] # Ret
        /\ data = <<>>

\* an assign aborted on its target after its own spill printed `push rax`
C8_Witness ==
    /\ status = "panic"
    /\ fatal = "invalid assignment"
    /\ Last(out) = PushRax

\* two separators in a row were consumed
DoubleSeparator ==
    \E i \in 1..(Len(input) - 1) : input[i] = ";" /\ input[i + 1] = ";"

(* C9, as claimed: two consecutive end-of-statement events (two separators *)
(* in a row, or a trailing separator followed by the epilogue) end the     *)
(* compilation with a fatal condition.                                     *)
C9_DoubleSeparatorFatal ==
    /\ DoubleSeparator => status = "panic"
    /\ (input # <<>> /\ Last(input) = ";") => status # "done"

(* C9, amended: an end-of-statement event that finds the evaluation stack  *)
(* empty (a second separator in a row, the epilogue after a trailing       *)
(* separator) is a no-op: it emits nothing, leaves the stack empty and     *)
(* does not fail; the epilogue then prints `ret`.                          *)
C9_EmptyStatementIsNoOp ==
    [][ (status = "running" /\ stack = <<>>) =>
          /\ input' = Append(input, ";") =>
                (status' = "running" /\ out' = out /\ stack' = <<>>)
          /\ input' = input =>
                (status' = "done" /\ out' = Append(out, Ret) /\ stack' = <<>>) ]_vars

\* a program with two separators in a row was compiled to its end
C9_Witness == DoubleSeparator /\ status = "done"

(* C10: with fewer than two entries on the evaluation stack, add,          *)
(* subtract, multiply and assign are fatal: the compilation panics, no     *)
(* line is emitted and no InAccumulator is pushed.                         *)
C10_UnderflowIsFatal ==
    [][ ( /\ status = "running"
          /\ Len(stack) < 2
          /\ \E ch \in {"+", "-", "*", "="} : input' = Append(input, ch) )
        => ( /\ status' = "panic"
             /\ fatal' = "stack underflow"
             /\ out' = out
             /\ stack' \in {stack, <<>>} ) ]_vars

\* an operator arrived with one pending operand and the process died
C10_Witness ==
    /\ status = "panic"
    /\ fatal = "stack underflow"
    /\ Len(stack) = 1
    /\ Last(input) \in {"+", "-", "*", "="}

\* this step is an endOfStatement event (a separator)
SeparatorStep == status = "running" /\ input' = Append(input, ";")
\* this step is the epilogue
EpilogueStep == status = "running" /\ input' = input /\ status' # "running"
\* the line that loads operand o into the accumulator
LoadOf(o) ==
    Ins("mov", Reg("eax"),
        IF o.kind = "Integer" THEN Imm(o.n) ELSE Mem(o.v))

(* C11: after an endOfStatement or an epilogue that returns normally the   *)
(* evaluation stack is empty; with two or more entries endOfStatement is   *)
(* fatal; with exactly one OnOperandStack entry it emits exactly one load  *)
(* of that operand into the accumulator, and with one InAccumulator entry  *)
(* it emits nothing (the epilogue then adds `ret`).                        *)
C11_EndOfStatementFinalizes ==
    [][ (SeparatorStep \/ EpilogueStep) =>
          LET tail == IF EpilogueStep THEN <<Ret>> ELSE <<>>
          IN  /\ status' # "panic" => stack' = <<>>
              /\ Len(stack) >= 2 => status' = "panic"
              /\ (Len(stack) = 1 /\ stack[1].loc = "OnOperandStack") =>
                    /\ status' # "panic"
                    /\ out' = out \o <<LoadOf(stack[1].operand)>> \o tail
              /\ (Len(stack) = 1 /\ stack[1].loc = "InAccumulator") =>
                    /\ status' # "panic"
                    /\ out' = out \o tail ]_vars

\* a separator arrived with two entries pending and the process died
C11_Witness ==
    /\ status = "panic"
    /\ fatal = "assertion failed"
    /\ input # <<>>
    /\ Last(input) = ";"
    /\ Len(stack) >= 1

\* the variables that occurred in a pushVariable event
Referenced == {input[i] : i \in {j \in DOMAIN input : IsLetter(input[j])}}
\* position of the first pushVariable event of v
FirstUse(v) == CHOOSE i \in DOMAIN input : input[i] = v /\ \A j \in 1..(i - 1) : input[j] # v
\* number of storage declarations of v in the data section
Declared(v) ==
    Cardinality({i \in DOMAIN data : data[i].line = "dd" /\ data[i].label = v})

(* C12: after a successful compilation the data section holds exactly one  *)
(* storage declaration for every variable that occurred in a pushVariable  *)
(* event, however often, and none for anything else; the section is absent *)
(* iff no variable occurred.                                               *)
C12_OneDeclarationPerVariable ==
    status = "done" =>
        /\ \A v \in AllVars : Declared(v) = IF v \in Referenced THEN 1 ELSE 0
        /\ \A i \in DOMAIN data : i > 1 => (data[i].line = "dd" /\ data[i].label \in AllVars)
        /\ data # <<>> => data[1] = SectionData
        /\ data = <<>> <=> Referenced = {}

\* x was referenced twice and y once, and the program was compiled
C12_Witness ==
    /\ status = "done"
    /\ Cardinality({i \in DOMAIN input : input[i] = "x"}) = 2
    /\ "y" \in Referenced
    /\ Len(data) = 3

(* C13: the storage declarations appear in insertion order: of two         *)
(* variables, the one whose first pushVariable event came earlier is       *)
(* declared earlier.                                                       *)
C13_DeclarationsInInsertionOrder ==
    status = "done" =>
        \A i, j \in DOMAIN data :
            (i < j /\ data[i].line = "dd" /\ data[j].line = "dd")
                => FirstUse(data[i].label) < FirstUse(data[j].label)

\* this step is an assign event
AssignStep == status = "running" /\ input' = Append(input, "=")
IsStore(l) == l.op = "mov" /\ l.dst.mode = "mem"
IsVariableEntry(l) == l.loc = "OnOperandStack" /\ l.operand.kind = "Variable"

(* C14: an assign whose popped lhs is not OnOperandStack(Variable(v)) - it *)
(* is OnOperandStack(Integer), InAccumulator or OnCpuStack - is fatal for  *)
(* every rhs; it pushes nothing and emits no store.                        *)
C14_InvalidTargetIsFatal ==
    [][ ( /\ AssignStep
          /\ Len(stack) >= 2
          /\ ~IsVariableEntry(stack[Len(stack) - 1]) )
        => ( /\ status' = "panic"
             /\ Len(stack') = Len(stack) - 2
             /\ Len(out') >= Len(out)
             /\ \A i \in (Len(out) + 1)..Len(out') : ~IsStore(out'[i]) ) ]_vars

\* an assign found the spilled value of 5 5 + as its target and aborted
C14_Witness ==
    /\ status = "panic"
    /\ fatal = "invalid assignment"
    /\ input = <<"5", "5", "+", "5", "5", "+", "=">>
    /\ stack = <<>>

(* C15: after an assign that returns normally the top of the evaluation    *)
(* stack is InAccumulator and the stack is one entry shorter, and the      *)
(* emitted code leaves the assigned value (the value of rhs when the       *)
(* assign arrives) both in v's cell and in the accumulator; x y 5 = =      *)
(* stores 5 into x and y.                                                  *)
C15_AssignYieldsItsValue ==
    [][ (AssignStep /\ status' = "running") =>
          /\ Len(stack') = Len(stack) - 1
          /\ Last(stack') = InAccumulator
          /\ \A r0 \in EntryWords :
                LET m == Exec(out, r0)
                    after == Exec(out', r0)
                    value == LocValue(stack[Len(stack)], m)
                IN  /\ after.eax = value
                    /\ after.mem[stack[Len(stack) - 1].operand.v] = value
                    /\ input' = <<"x", "y", "5", "=", "=">> =>
                          (after.mem["x"] = W(5) /\ after.mem["y"] = W(5)) ]_vars

\* the chained assignment was compiled and its code sets both cells to 5
C15_Witness ==
    /\ status = "running"
    /\ input = <<"x", "y", "5", "=", "=">>
    /\ stack = <<InAccumulator>>
    /\ Exec(out, W(0)).mem["x"] = W(5)
    /\ Exec(out, W(0)).mem["y"] = W(5)

\* this step is the arithmetic operator ch
ArithStep(ch) == status = "running" /\ input' = Append(input, ch)

(* C16: in the combine shape lhs OnCpuStack, rhs InAccumulator the         *)
(* generator emits `pop rbx` and then the operator on the accumulator with *)
(* ebx, which computes rhs op lhs: rhs - lhs for subtract (1 2 + 3 4 + -   *)
(* leaves (3+4)-(1+2) = 4), and the same as lhs op rhs for add and         *)
(* multiply.                                                               *)
C16_SpilledLhsIsSecondOperand ==
    [][ \A ch \in {"+", "-", "*"} :
          ( /\ ArithStep(ch)
            /\ status' = "running"
            /\ Len(stack) >= 2
            /\ stack[Len(stack) - 1] = OnCpuStack
            /\ stack[Len(stack)] = InAccumulator )
          => /\ Len(out') > Len(out) + 1
             /\ SubSeq(out', 1, Len(out)) = out
             /\ out'[Len(out) + 1] = Ins("pop", Reg("rbx"), NoArg)
             /\ \A i \in (Len(out) + 2)..Len(out') :
                   out'[i].src = Reg("ebx") /\ ~IsPop(out'[i]) /\ ~IsPush(out'[i])
             /\ \A r0 \in EntryWords :
                   LET m == Exec(out, r0)
                       lhs == Last(m.stk)
                       rhs == m.eax
                       result == Exec(out', r0).eax
                   IN  /\ result = Apply(ch, rhs, lhs)
                       /\ ch = "-" => result = WSub(rhs, lhs)
                       /\ ch \in {"+", "*"} => result = Apply(ch, lhs, rhs)
                       /\ input' = <<"1", "2", "+", "3", "4", "+", "-">> =>
                             result = W(4) ]_vars

\* 1 2 + 3 4 + - was combined and its code leaves 4, not -4
C16_Witness ==
    /\ status = "running"
    /\ input = <<"1", "2", "+", "3", "4", "+", "-">>
    /\ stack = <<InAccumulator>>
    /\ Exec(out, W(0)).eax = W(4)

(* Strict left-to-right postfix evaluation of a program of literals,       *)
(* variables, add, assign and separators: a variable's value is read when  *)
(* it is pushed; the entry keeps its name for use as an assignment target. *)
RefEntry(val, name) == [val |-> val, name |-> name]

RECURSIVE RefFrom(_, _, _)
RefFrom(in, i, st) ==
    IF i > Len(in) THEN st
    ELSE LET ch == in[i]
             n == Len(st.vs)
             rest == SubSeq(st.vs, 1, n - 2)
         IN  IF IsDigit(ch)
             THEN RefFrom(in, i + 1,
                      [st EXCEPT !.vs = Append(@, RefEntry(W(DigitOf(ch)), "-"))])
             ELSE IF IsLetter(ch)
             THEN RefFrom(in, i + 1,
                      [st EXCEPT !.vs = Append(@, RefEntry(st.mem[ch], ch))])
             ELSE IF ch = ";"
             THEN RefFrom(in, i + 1, [st EXCEPT !.vs = <<>>])
             ELSE IF ch = "="
             THEN RefFrom(in, i + 1,
                      [vs |-> Append(rest, RefEntry(st.vs[n].val, "-")),
                       mem |-> [st.mem EXCEPT ![st.vs[n - 1].name] = st.vs[n].val]])
             ELSE RefFrom(in, i + 1,
                      [st EXCEPT !.vs = Append(rest,
                          RefEntry(Apply(ch, st.vs[n - 1].val, st.vs[n].val), "-"))])

RefRun(in) == RefFrom(in, 1, [vs |-> <<>>, mem |-> [v \in AllVars |-> W(0)]])

(* C17: deferring the load of an OnOperandStack(Variable(v)) entry does    *)
(* not change the value used: for every accepted program the emitted code  *)
(* computes what strict left-to-right postfix evaluation computes, in the  *)
(* accumulator and in every cell, also with an assignment nested in a      *)
(* later operand (x x 5 = +).                                              *)
C17_DeferredLoadKeepsValue ==
    (status = "done" /\ input # <<>> /\ Last(input) # ";") =>
        \A r0 \in EntryWords :
            /\ Exec(out, r0).eax = Last(RefRun(input).vs).val
            /\ Exec(out, r0).mem = RefRun(input).mem

\* the top entry is not OnCpuStack and every OnCpuStack entry lies directly
\* under an OnCpuStack or InAccumulator entry
SpillsAreCovered ==
    \A i \in Cpus :
        i < Len(stack) /\ stack[i + 1].loc \in {"OnCpuStack", "InAccumulator"}

(* C18, as claimed: in every reachable state the top entry is never        *)
(* OnCpuStack and every OnCpuStack entry is immediately followed by an     *)
(* OnCpuStack or InAccumulator entry, and the "unbalanced stack" branch of *)
(* endOfStatement is never taken.                                          *)
C18_SpillsCoveredEverywhere ==
    SpillsAreCovered /\ fatal # "unbalanced stack"

(* C18, amended: in every reachable state in which no event has been       *)
(* fatal the top entry is never OnCpuStack and every OnCpuStack entry is   *)
(* immediately followed by an OnCpuStack or InAccumulator entry; hence the *)
(* "unbalanced stack" branch of endOfStatement is never taken.             *)
C18_SpillsCoveredWhileAlive ==
    /\ status # "panic" => SpillsAreCovered
    /\ fatal # "unbalanced stack"

\* a spilled value lies under the accumulator entry of the next sum
C18_Witness ==
    /\ status = "running"
    /\ stack = <<OnCpuStack, InAccumulator>>
    /\ Count(out, IsPush) = 1
    /\ Count(out, IsPop) = 0

\* the four shapes the combine step supports
SupportedShape(lhs, rhs) ==
    \/ lhs.loc = "OnOperandStack" /\ rhs.loc = "OnOperandStack"
    \/ lhs.loc = "OnOperandStack" /\ rhs.loc = "InAccumulator"
    \/ lhs.loc = "InAccumulator" /\ rhs.loc = "OnOperandStack"
    \/ lhs.loc = "OnCpuStack" /\ rhs.loc = "InAccumulator"

(* C19: whenever add, subtract or multiply pops two entries and the spill  *)
(* pass completes, (lhs, rhs) is one of the four supported shapes, so the  *)
(* operator returns normally and the "unexpected operand shape" branch is  *)
(* never taken.                                                            *)
C19_ShapeAlwaysSupported ==
    [][ \A ch \in {"+", "-", "*"} :
          ( /\ ArithStep(ch)
            /\ Len(stack) >= 2
            /\ fatal' # "unexpected stack" )
          => /\ SupportedShape(stack[Len(stack) - 1], stack[Len(stack)])
             /\ fatal' # "unexpected operand shape"
             /\ status' = "running" ]_vars

\* an operator combined a spilled lhs with the accumulator
C19_Witness ==
    /\ status = "running"
    /\ Len(input) > 0
    /\ Last(input) \in {"+", "-", "*"}
    /\ stack = <<InAccumulator>>
    /\ Count(out, IsPop) = 1

\* the entries that remain after the two pops of an operator
Remaining == SubSeq(stack, 1, Len(stack) - 2)

(* C20: the spill pass of a binary operator or assign changes only an      *)
(* InAccumulator entry among the entries remaining after the two pops: it  *)
(* emits exactly one `push rax` and rewrites that entry to OnCpuStack,     *)
(* emits no push when no remaining entry is InAccumulator, and leaves      *)
(* every OnOperandStack and OnCpuStack entry as it was; one operator event *)
(* emits at most one push.                                                 *)
C20_SpillTouchesOnlyAccumulator ==
    [][ \A ch \in {"+", "-", "*", "="} :
          (ArithStep(ch) /\ Len(stack) >= 2) =>
            LET pushes == Count(out', IsPush) - Count(out, IsPush)
                held == {i \in DOMAIN Remaining : Remaining[i] = InAccumulator}
            IN  /\ pushes <= 1
                /\ held = {} => pushes = 0
                /\ Len(stack') >= Len(Remaining)
                /\ \A i \in DOMAIN Remaining :
                      IF i \in held
                      THEN pushes = 1 /\ stack'[i] = OnCpuStack
                      ELSE stack'[i] = Remaining[i] ]_vars

====
